---- MODULE Spec2Model ----
(***************************************************************************)
(* Data Sweeper (src/growth.py): a Streamlit page that parses uploaded CSV *)
(* and Excel files into DataFrames, offers two cleaning buttons, a column  *)
(* multiselect, a bar chart and a Convert button that offers the frame for *)
(* download as CSV or Excel.                                               *)
(*                                                                         *)
(* Streamlit runs the whole script again on every user interaction, so one *)
(* action of this model is one interaction followed by one full pass of    *)
(* the script (lines 77-164) over every uploaded file.  Widget values      *)
(* (checkboxes, multiselect, radio) persist between passes; a button is    *)
(* True only in the pass its click triggered; `df` is a local of the pass  *)
(* and is parsed again from the uploaded bytes each time.                  *)
(***************************************************************************)
EXTENDS Integers, Sequences, FiniteSets, TLC

VARIABLES
    files,      \* uploaded_files: sequence of [name, data]
    clean,      \* st.checkbox "Clean Data for <name>", per file
    sel,        \* st.multiselect "Choose Columns for <name>", per file
    viz,        \* st.checkbox "Show Visualization for <name>", per file
    fmt,        \* st.radio "Convert <name> to:", per file
    event,      \* the button that is True in the last pass, if any
    out         \* what the last pass rendered, per file

vars == <<files, clean, sel, viz, fmt, event, out>>

(***************************************************************************)
(* Bounds of the explored inputs.                                          *)
(***************************************************************************)
MaxFiles == 3          \* files per upload (Spec)
MaxParts == 3          \* pieces a generated file name is made of (SpecName)
MaxRows == 3           \* data rows of a file (SpecClean)
MaxRowsSelect == 2     \* data rows of a file (SpecSelect)
MaxRowsViz == 1        \* data rows of a file (SpecViz)

\* df.head() previews the first five rows.
PreviewRows == 5
\* st.bar_chart(numeric_df.iloc[:, :2])
ChartCols == 2

(***************************************************************************)
(* Generic helpers.                                                        *)
(***************************************************************************)
Range(s) == {s[i] : i \in 1..Len(s)}

Min(a, b) == IF a < b THEN a ELSE b

RECURSIVE Gcd(_, _)
Gcd(a, b) == IF b = 0 THEN a ELSE Gcd(b, a % b)

\* The subsequence of s at the positions whose flag is TRUE, in order.
RECURSIVE Keep(_, _, _)
Keep(s, flags, i) ==
    IF i > Len(s) THEN <<>>
    ELSE (IF flags[i] THEN <<s[i]>> ELSE <<>>) \o Keep(s, flags, i + 1)

\* All sequences over S of length exactly n / at most n.
SeqsOfLen(S, n) == [1..n -> S]
SeqsUpTo(S, n) == UNION {SeqsOfLen(S, k) : k \in 0..n}

(***************************************************************************)
(* Cells and tables.  A DataFrame is an ordered list of named columns,     *)
(* each with a dtype, and a list of rows.  A cell is a number (an exact    *)
(* fraction n/d in lowest terms, so that a column mean is exact), a text   *)
(* or missing (NaN).                                                       *)
(***************************************************************************)
NA == [k |-> "na", n |-> 0, d |-> 1, s |-> ""]
Str(s) == [k |-> "str", n |-> 0, d |-> 1, s |-> s]
Num(n, d) ==
    LET g == Gcd(n, d)
    IN [k |-> "num", n |-> n \div g, d |-> d \div g, s |-> ""]

IsNA(c) == c.k = "na"
IsNum(c) == c.k = "num"

Table(columns, dtypes, rows) ==
    [ok |-> TRUE, columns |-> columns, dtypes |-> dtypes, rows |-> rows]

\* No DataFrame: the parser raised, or the file was skipped.
NoTable == [ok |-> FALSE, columns |-> <<>>, dtypes |-> <<>>, rows |-> <<>>]

Column(t, j) == [r \in 1..Len(t.rows) |-> t.rows[r][j]]

\* The dtype pandas infers for a parsed column: float64/int64 when every
\* non-missing cell is a number (an all-missing column is float64), object
\* when some cell is text or when there is no row at all.
InferDtype(cells) ==
    IF Len(cells) > 0 /\ \A r \in 1..Len(cells) : cells[r].k # "str"
    THEN "number" ELSE "object"

(***************************************************************************)
(* File contents.  A CSV file is a sequence of lines, each a sequence of   *)
(* fields (texts); a line without any field is a blank line.  A workbook   *)
(* is one sheet: a sequence of rows of typed cells.                        *)
(***************************************************************************)
CsvData(lines) == [format |-> "csv", lines |-> lines, sheet |-> <<>>]
XlsxData(sheet) == [format |-> "xlsx", lines |-> <<>>, sheet |-> sheet]
NoData == [format |-> "none", lines |-> <<>>, sheet |-> <<>>]

\* The numbers a cell of the model can hold: file literals and their means.
Literals == {1, 2}
MaxLiteral == CHOOSE m \in Literals : \A x \in Literals : x <= m
MaxCount == MaxRows + MaxRowsSelect + MaxRowsViz
Numbers == {Num(n, d) : n \in 0..(MaxLiteral * MaxCount), d \in 1..MaxCount}

\* The text to_csv writes for a number, and repr's inverse in the parser.
Render(c) ==
    IF c.d = 1 THEN ToString(c.n) ELSE ToString(c.n) \o "/" \o ToString(c.d)

NumericTexts == {Render(c) : c \in Numbers}
ParseTable == [s \in NumericTexts |-> CHOOSE c \in Numbers : Render(c) = s]

IsNumeric(s) == s \in NumericTexts
ParseNum(s) == ParseTable[s]

\* read_csv's default na_values (those within the model's alphabet).
NaTokens == {"", "NA", "NaN"}

\* pd.read_csv(file): blank lines are skipped, the first line left is the
\* header, EmptyDataError when no line is left.  A column all of whose
\* non-missing fields are numeric is parsed to numbers, else kept as text.
ReadCsv(lines) ==
    LET kept == SelectSeq(lines, LAMBDA l : Len(l) > 0)
    IN IF Len(kept) = 0 THEN NoTable
       ELSE
         LET header == kept[1]
             body == SubSeq(kept, 2, Len(kept))
             numeric(j) ==
                 /\ Len(body) > 0
                 /\ \A r \in 1..Len(body) :
                        body[r][j] \in NaTokens \/ IsNumeric(body[r][j])
             cell(r, j) ==
                 IF body[r][j] \in NaTokens THEN NA
                 ELSE IF numeric(j) THEN ParseNum(body[r][j])
                 ELSE Str(body[r][j])
         IN Table(header,
                  [j \in 1..Len(header) |->
                      IF numeric(j) THEN "number" ELSE "object"],
                  [r \in 1..Len(body) |->
                      [j \in 1..Len(header) |-> cell(r, j)]])

\* Mutant: to_csv without index=False writes the row index as a first,
\* unnamed column.
ToCsvWithIndex(t) ==
    LET field(c) == IF IsNA(c) THEN ""
                    ELSE IF IsNum(c) THEN Render(c) ELSE c.s
    IN <<<<"">> \o t.columns>> \o
       [r \in 1..Len(t.rows) |->
           <<ToString(r - 1)>> \o
           [j \in 1..Len(t.columns) |-> field(t.rows[r][j])]]

\* df.to_csv(buffer, index=False): a header line, then one line per row;
\* NaN is written as the empty field.  (A one-field line holding the empty
\* field is written quoted, so it is not a blank line.)
ToCsv(t) ==
    LET field(c) == IF IsNA(c) THEN ""
                    ELSE IF IsNum(c) THEN Render(c) ELSE c.s
    IN <<t.columns>> \o
       [r \in 1..Len(t.rows) |->
           [j \in 1..Len(t.columns) |-> field(t.rows[r][j])]]

\* A row of a sheet without its trailing empty cells.
RECURSIVE TrimRow(_)
TrimRow(row) ==
    IF Len(row) > 0 /\ IsNA(row[Len(row)])
    THEN TrimRow(SubSeq(row, 1, Len(row) - 1)) ELSE row

\* A sheet without its trailing empty rows.
RECURSIVE TrimSheet(_)
TrimSheet(rows) ==
    IF Len(rows) > 0 /\ Len(rows[Len(rows)]) = 0
    THEN TrimSheet(SubSeq(rows, 1, Len(rows) - 1)) ELSE rows

\* pd.read_excel(file): the openpyxl reader trims trailing empty cells of
\* every row and trailing empty rows of the sheet, pads the rows left to
\* the widest one, and takes the first row as the header.  A sheet with no
\* data gives an empty DataFrame.
ReadExcel(sheet) ==
    LET trimmed == TrimSheet([r \in 1..Len(sheet) |-> TrimRow(sheet[r])])
        width == IF Len(trimmed) = 0 THEN 0
                 ELSE CHOOSE w \in {Len(trimmed[r]) : r \in 1..Len(trimmed)} :
                          \A r \in 1..Len(trimmed) : Len(trimmed[r]) <= w
        padded == [r \in 1..Len(trimmed) |->
                      [j \in 1..width |->
                          IF j <= Len(trimmed[r]) THEN trimmed[r][j] ELSE NA]]
    IN IF Len(trimmed) = 0 THEN Table(<<>>, <<>>, <<>>)
       ELSE
         LET header == [j \in 1..width |-> padded[1][j].s]
             body == SubSeq(padded, 2, Len(padded))
         IN Table(header,
                  [j \in 1..width |->
                      InferDtype([r \in 1..Len(body) |-> body[r][j]])],
                  body)

\* df.to_excel(buffer, index=False): a header row of text cells, then one
\* row per data row; NaN is written as an empty cell.
ToExcel(t) ==
    <<[j \in 1..Len(t.columns) |-> Str(t.columns[j])]>> \o t.rows

(***************************************************************************)
(* Cleaning (lines 106-114).                                               *)
(***************************************************************************)
\* Mutant: drop_duplicates(keep='last').
DropDuplicatesKeepLast(t) ==
    LET last == [i \in 1..Len(t.rows) |->
                    ~ \E j \in (i + 1)..Len(t.rows) : t.rows[j] = t.rows[i]]
    IN Table(t.columns, t.dtypes, Keep(t.rows, last, 1))

\* Mutant: only the last row that repeats an earlier one is dropped.
DropDuplicatesOnce(t) ==
    LET repeats == {i \in 1..Len(t.rows) :
                       \E j \in 1..(i - 1) : t.rows[j] = t.rows[i]}
        keep == [i \in 1..Len(t.rows) |->
                    ~ (i \in repeats /\ \A j \in repeats : j <= i)]
    IN Table(t.columns, t.dtypes, Keep(t.rows, keep, 1))

\* df.drop_duplicates(inplace=True): a row equal in every column to an
\* earlier row is dropped (NaN counts as equal to NaN); the first
\* occurrence stays, the order of the rows kept is unchanged.
DropDuplicates(t) ==
    LET first == [i \in 1..Len(t.rows) |->
                     ~ \E j \in 1..(i - 1) : t.rows[j] = t.rows[i]]
    IN Table(t.columns, t.dtypes, Keep(t.rows, first, 1))

\* The sum of the numbers among cells[i..].
RECURSIVE SumFrom(_, _)
SumFrom(cells, i) ==
    IF i > Len(cells) THEN Num(0, 1)
    ELSE LET rest == SumFrom(cells, i + 1)
             c == cells[i]
         IN IF IsNum(c) THEN Num(c.n * rest.d + rest.n * c.d, c.d * rest.d)
            ELSE rest

\* Series.mean(): NaN is skipped; the mean of no value at all is NaN.
Mean(cells) ==
    LET count == Cardinality({i \in 1..Len(cells) : IsNum(cells[i])})
        total == SumFrom(cells, 1)
    IN IF count = 0 THEN NA ELSE Num(total.n, total.d * count)

\* Mutant: the mean taken over every row, a missing cell counting as zero.
FillMissingCountingNaN(t) ==
    LET mean == [j \in 1..Len(t.columns) |->
                    LET total == SumFrom(Column(t, j), 1)
                    IN Num(total.n, total.d * Len(t.rows))]
    IN Table(t.columns, t.dtypes,
             [r \in 1..Len(t.rows) |->
                 [j \in 1..Len(t.columns) |->
                     IF t.dtypes[j] = "number" /\ IsNA(t.rows[r][j])
                     THEN mean[j] ELSE t.rows[r][j]]])

\* numeric_cols = df.select_dtypes(include=['number']).columns
\* df[numeric_cols] = df[numeric_cols].fillna(df[numeric_cols].mean())
\* fillna with a NaN mean fills nothing.
FillMissing(t) ==
    LET mean == [j \in 1..Len(t.columns) |-> Mean(Column(t, j))]
    IN Table(t.columns, t.dtypes,
             [r \in 1..Len(t.rows) |->
                 [j \in 1..Len(t.columns) |->
                     IF t.dtypes[j] = "number" /\ IsNA(t.rows[r][j])
                     THEN mean[j] ELSE t.rows[r][j]]])

(***************************************************************************)
(* Column selection (lines 118-119).                                       *)
(***************************************************************************)
IndexOf(seq, x) == CHOOSE j \in 1..Len(seq) : seq[j] = x

\* df = df[columns]: the columns named by the list, in the list's order.
SelectColumns(t, columns) ==
    LET at == [k \in 1..Len(columns) |-> IndexOf(t.columns, columns[k])]
    IN Table(columns,
             [k \in 1..Len(columns) |-> t.dtypes[at[k]]],
             [r \in 1..Len(t.rows) |->
                 [k \in 1..Len(columns) |-> t.rows[r][at[k]]]])

(***************************************************************************)
(* Visualization (lines 122-140).                                          *)
(***************************************************************************)
\* df.select_dtypes(include='number'); the labels of the model carry no
\* surrounding whitespace and the cells of a numeric column are numbers
\* already, so .str.strip() and pd.to_numeric leave them as they are.
SelectNumeric(t) ==
    LET isnum == [j \in 1..Len(t.columns) |-> t.dtypes[j] = "number"]
        pick(row) == Keep(row, isnum, 1)
    IN Table(pick(t.columns), pick(t.dtypes),
             [r \in 1..Len(t.rows) |-> pick(t.rows[r])])

\* Mutant: dropna(how='any').
DropRowsWithAnyMissing(t) ==
    LET full == [r \in 1..Len(t.rows) |->
                    \A j \in 1..Len(t.columns) : ~ IsNA(t.rows[r][j])]
    IN Table(t.columns, t.dtypes, Keep(t.rows, full, 1))

\* numeric_df.dropna(how='all', inplace=True): a row is kept when it holds
\* at least one non-missing cell.
DropEmptyRows(t) ==
    LET some == [r \in 1..Len(t.rows) |->
                    \E j \in 1..Len(t.columns) : ~ IsNA(t.rows[r][j])]
    IN Table(t.columns, t.dtypes, Keep(t.rows, some, 1))

\* DataFrame.empty: no column or no row.
IsEmpty(t) == Len(t.columns) = 0 \/ Len(t.rows) = 0

\* numeric_df.iloc[:, :2]
FirstColumns(t, n) ==
    LET w == Min(n, Len(t.columns))
    IN Table(SubSeq(t.columns, 1, w), SubSeq(t.dtypes, 1, w),
             [r \in 1..Len(t.rows) |-> SubSeq(t.rows[r], 1, w)])

NoChart == [kind |-> "none", data |-> NoTable]

\* The body of `if st.checkbox("Show Visualization ...")`.
Visualize(t) ==
    LET numeric_df == DropEmptyRows(SelectNumeric(t))
    IN IF ~ IsEmpty(numeric_df)
       THEN [kind |-> "bar_chart", data |-> FirstColumns(numeric_df, ChartCols)]
       ELSE [kind |-> "warning", data |-> NoTable]

(***************************************************************************)
(* File names: sequences of characters.                                    *)
(***************************************************************************)
Uppers == <<"A", "C", "D", "L", "S", "T", "V", "X">>
Lowers == <<"a", "c", "d", "l", "s", "t", "v", "x">>

\* str.lower()
Lower(name) ==
    [i \in 1..Len(name) |->
        IF \E u \in 1..Len(Uppers) : Uppers[u] = name[i]
        THEN Lowers[CHOOSE u \in 1..Len(Uppers) : Uppers[u] = name[i]]
        ELSE name[i]]

\* os.path.splitext(name)[-1] of a name without directory separators: the
\* text from the last dot on, unless only dots precede that dot.
SplitExt(name) ==
    LET dots == {i \in 1..Len(name) : name[i] = "."}
    IN IF dots = {} THEN <<>>
       ELSE LET dot == CHOOSE i \in dots : \A j \in dots : j <= i
            IN IF \E i \in 1..(dot - 1) : name[i] # "."
               THEN SubSeq(name, dot, Len(name)) ELSE <<>>

StartsWith(s, i, old) ==
    /\ i + Len(old) - 1 <= Len(s)
    /\ SubSeq(s, i, i + Len(old) - 1) = old

\* str.replace(old, new) for a non-empty old: every occurrence, scanning
\* from the left, occurrences not overlapping.
RECURSIVE ReplaceFrom(_, _, _, _)
ReplaceFrom(s, i, old, new) ==
    IF i > Len(s) THEN <<>>
    ELSE IF StartsWith(s, i, old)
         THEN new \o ReplaceFrom(s, i + Len(old), old, new)
         ELSE <<s[i]>> \o ReplaceFrom(s, i + 1, old, new)

Replace(s, old, new) == ReplaceFrom(s, 1, old, new)

ExtCsv == <<".", "c", "s", "v">>
ExtXlsx == <<".", "x", "l", "s", "x">>

\* file_extension = os.path.splitext(file.name)[-1].lower()
FileExtension(name) == Lower(SplitExt(name))

MimeCsv == "text/csv"
MimeXlsx == "application/vnd.openxmlformats-officedocument.spreadsheetml.sheet"

(***************************************************************************)
(* One pass of the script over the uploaded files (lines 77-164).          *)
(***************************************************************************)
NoDownload == [offered |-> FALSE, data |-> NoData, file_name |-> <<>>, mime |-> ""]

\* What the pass renders for a file it has not reached.
Blank ==
    [shown |-> {}, error |-> <<>>, df |-> NoTable, preview |-> <<>>,
     chart |-> NoChart, download |-> NoDownload]

\* The button whose click triggered the pass: it is True in that pass only.
\* A pass triggered by another widget, or by the upload, has no button True.
Event(kind, i) == [kind |-> kind, file |-> i]
Clicked(ev, kind, i) == ev.kind = kind /\ ev.file = i

\* Lines 83-86: the parser is chosen by the extension.
ReadFile(f, file_extension) ==
    IF file_extension = ExtCsv THEN ReadCsv(f.data.lines)
    ELSE ReadExcel(f.data.sheet)

\* Lines 102-114: the cleaning section.
CleanData(df, i, checked, ev) ==
    IF ~ checked THEN df
    ELSE LET df1 == IF Clicked(ev, "dedup", i) THEN DropDuplicates(df) ELSE df
         IN IF Clicked(ev, "fill", i) THEN FillMissing(df1) ELSE df1

\* Mutant: the MIME type of the CSV branch in both branches.
ConvertAsCsvMime(df, name, file_extension, conversion_type) ==
    IF conversion_type = "CSV"
    THEN [offered |-> TRUE, data |-> CsvData(ToCsv(df)),
          file_name |-> Replace(name, file_extension, ExtCsv),
          mime |-> MimeCsv]
    ELSE [offered |-> TRUE, data |-> XlsxData(ToExcel(df)),
          file_name |-> Replace(name, file_extension, ExtXlsx),
          mime |-> MimeCsv]

\* Lines 147-164: the body of `if st.button("Convert ...")`.
Convert(df, name, file_extension, conversion_type) ==
    IF conversion_type = "CSV"
    THEN [offered |-> TRUE, data |-> CsvData(ToCsv(df)),
          file_name |-> Replace(name, file_extension, ExtCsv),
          mime |-> MimeCsv]
    ELSE [offered |-> TRUE, data |-> XlsxData(ToExcel(df)),
          file_name |-> Replace(name, file_extension, ExtXlsx),
          mime |-> MimeXlsx]

\* Parsing a buffer again, by the parser of its format.
ReadData(data) ==
    IF data.format = "csv" THEN ReadCsv(data.lines) ELSE ReadExcel(data.sheet)

\* Lines 89-90: st.error(...) and continue.
Unsupported(file_extension) ==
    [Blank EXCEPT !.shown = {"error"},
                  !.error = <<"Unsupported file type: ">> \o file_extension]

\* Lines 92-164: the body of the loop for a file that was parsed.
Process(i, f, file_extension, cl, se, vi, fm, ev) ==
    LET parsed == ReadFile(f, file_extension)
        cleaned == CleanData(parsed, i, cl[i], ev)
        df == SelectColumns(cleaned, se[i])
        chart == IF vi[i] THEN Visualize(df) ELSE NoChart
        download == IF Clicked(ev, "convert", i)
                    THEN Convert(df, f.name, file_extension, fm[i])
                    ELSE NoDownload
    IN [shown |->
            {"file_name", "file_size", "preview", "clean_checkbox",
             "multiselect", "viz_checkbox", "radio", "convert_button"}
            \cup (IF cl[i] THEN {"dedup_button", "fill_button"} ELSE {})
            \cup (IF cl[i] /\ Clicked(ev, "dedup", i)
                  THEN {"duplicates_removed"} ELSE {})
            \cup (IF cl[i] /\ Clicked(ev, "fill", i)
                  THEN {"missing_values_filled"} ELSE {})
            \cup (IF chart.kind = "none" THEN {} ELSE {chart.kind})
            \cup (IF download.offered THEN {"download_button"} ELSE {}),
        error |-> <<>>,
        df |-> df,
        preview |-> SubSeq(parsed.rows, 1, Min(PreviewRows, Len(parsed.rows))),
        chart |-> chart,
        download |-> download]

\* Mutant: `break` instead of `continue`.
BreakAfterUnsupported(i, n) == n + 1

\* Line 90: `continue` goes on with the next file of the list.
AfterUnsupported(i, n) == i + 1

\* Lines 78-164: for file in uploaded_files.
RECURSIVE Loop(_, _, _, _, _, _, _, _)
Loop(i, fs, cl, se, vi, fm, ev, acc) ==
    IF i > Len(fs) THEN acc
    ELSE LET file_extension == FileExtension(fs[i].name)
         IN IF file_extension \in {ExtCsv, ExtXlsx}
            THEN Loop(i + 1, fs, cl, se, vi, fm, ev,
                      [acc EXCEPT ![i] =
                          Process(i, fs[i], file_extension, cl, se, vi, fm, ev)])
            ELSE Loop(AfterUnsupported(i, Len(fs)), fs, cl, se, vi, fm, ev,
                      [acc EXCEPT ![i] = Unsupported(file_extension)])

RunPass(fs, cl, se, vi, fm, ev) ==
    Loop(1, fs, cl, se, vi, fm, ev, [i \in 1..Len(fs) |-> Blank])

(***************************************************************************)
(* Uploads.                                                                *)
(***************************************************************************)
Chars(stem) == <<stem>>
File(name, data) == [name |-> name, data |-> data]

Supported(name) == FileExtension(name) \in {ExtCsv, ExtXlsx}

\* The multiselect's default: every column of the parsed frame.
DefaultColumns(f) ==
    IF Supported(f.name) THEN ReadFile(f, FileExtension(f.name)).columns
    ELSE <<>>

\* The page after the upload: no box ticked, every column selected, CSV.
Uploaded(fs) ==
    /\ files = fs
    /\ clean = [i \in 1..Len(fs) |-> FALSE]
    /\ sel = [i \in 1..Len(fs) |-> DefaultColumns(fs[i])]
    /\ viz = [i \in 1..Len(fs) |-> FALSE]
    /\ fmt = [i \in 1..Len(fs) |-> "CSV"]
    /\ event = Event("upload", 0)
    /\ out = RunPass(fs, clean, sel, viz, fmt, event)

CsvFields == {"", "x"} \cup {ToString(v) : v \in Literals}
\* A workbook cell may hold the text "1" as well as the number 1.
SheetCells == {NA, Str("x"), Str("1"), Num(1, 1)}

\* The bodies of n data rows of k cells over the alphabet.
Bodies(n, k, alphabet) == [1..n -> [1..k -> alphabet]]

\* The CSV file <stem>.csv whose header is the first k of the names.
CsvFile(stem, names, k, body) ==
    File(Chars(stem) \o ExtCsv, CsvData(<<SubSeq(names, 1, k)>> \o body))

\* The workbook <stem>.xlsx whose header is the first k of the names.
XlsxFile(stem, names, k, body) ==
    File(Chars(stem) \o ExtXlsx,
         XlsxData(<<[j \in 1..k |-> Str(names[j])]>> \o body))

\* An upload of one CSV file, or of one workbook, of 1..Len(names) columns
\* and at most maxRows data rows.
UploadedCsv(names, maxRows) ==
    \E k \in 1..Len(names) : \E n \in 0..maxRows :
        \E body \in Bodies(n, k, CsvFields) :
            Uploaded(<<CsvFile("a", names, k, body)>>)

UploadedXlsx(names, maxRows) ==
    \E k \in 1..Len(names) : \E n \in 0..maxRows :
        \E body \in Bodies(n, k, SheetCells) :
            Uploaded(<<XlsxFile("a", names, k, body)>>)

(***************************************************************************)
(* Interactions.  Each changes one widget and runs the script again.       *)
(***************************************************************************)
Rerun(ev, cl, se, vi, fm) ==
    /\ event' = ev
    /\ clean' = cl
    /\ sel' = se
    /\ viz' = vi
    /\ fmt' = fm
    /\ out' = RunPass(files, cl, se, vi, fm, ev)
    /\ UNCHANGED files

Has(i, widget) == widget \in out[i].shown

ToggleClean ==
    \E i \in 1..Len(files) :
        /\ Has(i, "clean_checkbox")
        /\ Rerun(Event("widget", 0), [clean EXCEPT ![i] = ~ @], sel, viz, fmt)

ClickRemoveDuplicates ==
    \E i \in 1..Len(files) :
        /\ Has(i, "dedup_button")
        /\ Rerun(Event("dedup", i), clean, sel, viz, fmt)

ClickFillMissing ==
    \E i \in 1..Len(files) :
        /\ Has(i, "fill_button")
        /\ Rerun(Event("fill", i), clean, sel, viz, fmt)

\* The multiselect returns the chosen options in the order they were picked.
AddColumn ==
    \E i \in 1..Len(files) :
        /\ Has(i, "multiselect")
        /\ \E c \in Range(DefaultColumns(files[i])) \ Range(sel[i]) :
               Rerun(Event("widget", 0), clean,
                     [sel EXCEPT ![i] = Append(@, c)], viz, fmt)

RemoveColumn ==
    \E i \in 1..Len(files) :
        /\ Has(i, "multiselect")
        /\ \E k \in 1..Len(sel[i]) :
               Rerun(Event("widget", 0), clean,
                     [sel EXCEPT ![i] =
                         SubSeq(@, 1, k - 1) \o SubSeq(@, k + 1, Len(@))],
                     viz, fmt)

ToggleViz ==
    \E i \in 1..Len(files) :
        /\ Has(i, "viz_checkbox")
        /\ Rerun(Event("widget", 0), clean, sel, [viz EXCEPT ![i] = ~ @], fmt)

ChooseFormat ==
    \E i \in 1..Len(files) :
        /\ Has(i, "radio")
        /\ Rerun(Event("widget", 0), clean, sel, viz,
                 [fmt EXCEPT ![i] = IF @ = "CSV" THEN "Excel" ELSE "CSV"])

ClickConvert ==
    \E i \in 1..Len(files) :
        /\ Has(i, "convert_button")
        /\ Rerun(Event("convert", i), clean, sel, viz, fmt)

ClickDownload ==
    \E i \in 1..Len(files) :
        /\ Has(i, "download_button")
        /\ Rerun(Event("download", i), clean, sel, viz, fmt)

(***************************************************************************)
(* Spec: a session over an upload of up to MaxFiles files.                 *)
(***************************************************************************)
SessionFiles ==
    {File(<<"a">> \o ExtCsv,
          CsvData(<< <<"a">>, <<"1">>, <<"">>, <<"1">>, <<"2">> >>)),
     File(<<"b", ".", "X", "L", "S", "X">>,
          XlsxData(<< <<Str("b")>>, <<Str("x")>>, <<Str("x")>> >>)),
     File(ExtCsv, NoData)}

Uploads(fileSet, n) ==
    {fs \in SeqsUpTo(fileSet, n) :
        /\ Len(fs) > 0
        /\ \A i, j \in 1..Len(fs) : i # j => fs[i].name # fs[j].name}

Init == \E fs \in Uploads(SessionFiles, MaxFiles) : Uploaded(fs)

Next ==
    \/ ToggleClean
    \/ ClickRemoveDuplicates
    \/ ClickFillMissing
    \/ AddColumn
    \/ RemoveColumn
    \/ ToggleViz
    \/ ChooseFormat
    \/ ClickConvert
    \/ ClickDownload

Spec == Init /\ [][Next]_vars

(***************************************************************************)
(* SpecName: one file under every generated name; the conversion controls. *)
(***************************************************************************)
NamePieces ==
    {<<"a">>, ExtCsv, ExtXlsx, <<".", "C", "S", "V">>,
     <<".", "X", "L", "S", "X">>, <<".", "t", "x", "t">>}

RECURSIVE Flatten(_)
Flatten(pieces) ==
    IF Len(pieces) = 0 THEN <<>> ELSE Head(pieces) \o Flatten(Tail(pieces))

GeneratedNames ==
    {Flatten(ps) : ps \in SeqsUpTo(NamePieces, MaxParts) \ {<<>>}}

\* A file of that name whose content is of the format the name announces.
NamedFile(name) ==
    File(name,
         IF FileExtension(name) = ExtCsv
         THEN CsvData(<< <<"a">>, <<"1">> >>)
         ELSE IF FileExtension(name) = ExtXlsx
         THEN XlsxData(<< <<Str("a")>>, <<Num(1, 1)>> >>)
         ELSE NoData)

InitName == \E name \in GeneratedNames : Uploaded(<<NamedFile(name)>>)

NextName ==
    \/ ChooseFormat
    \/ ClickConvert
    \/ ClickDownload

SpecName == InitName /\ [][NextName]_vars

(***************************************************************************)
(* SpecClean: one CSV file of up to two columns and MaxRows rows; the      *)
(* cleaning controls.                                                      *)
(***************************************************************************)
InitClean == UploadedCsv(<<"a", "b">>, MaxRows)

NextClean ==
    \/ ToggleClean
    \/ ClickRemoveDuplicates
    \/ ClickFillMissing

SpecClean == InitClean /\ [][NextClean]_vars

(***************************************************************************)
(* SpecSelect: one CSV file or workbook of up to two columns and           *)
(* MaxRowsSelect rows; the column selection and the conversion controls.   *)
(***************************************************************************)
InitSelect ==
    \/ UploadedCsv(<<"a", "b">>, MaxRowsSelect)
    \/ UploadedXlsx(<<"a", "b">>, MaxRowsSelect)

NextSelect ==
    \/ AddColumn
    \/ RemoveColumn
    \/ ChooseFormat
    \/ ClickConvert

SpecSelect == InitSelect /\ [][NextSelect]_vars

(***************************************************************************)
(* SpecViz: one CSV file or workbook of up to three columns and MaxRowsViz *)
(* rows; the column selection and the visualization checkbox.              *)
(***************************************************************************)
InitViz ==
    \/ UploadedCsv(<<"a", "b", "c">>, MaxRowsViz)
    \/ UploadedXlsx(<<"a", "b", "c">>, MaxRowsViz)

NextViz ==
    \/ AddColumn
    \/ RemoveColumn
    \/ ToggleViz

SpecViz == InitViz /\ [][NextViz]_vars

(***************************************************************************)
(* The claims.                                                             *)
(***************************************************************************)
\* The frame the last pass parsed from file i.
Parsed(i) == ReadFile(files[i], FileExtension(files[i].name))

AllSelected(i) == sel[i] = Parsed(i).columns

\* The position of the first row equal to x.
FirstAt(rows, x) ==
    CHOOSE i \in 1..Len(rows) :
        rows[i] = x /\ \A j \in 1..(i - 1) : rows[j] # x

\* The sum of the whole numbers among cells[i..].
RECURSIVE Total(_, _)
Total(cells, i) ==
    IF i > Len(cells) THEN 0
    ELSE (IF IsNum(cells[i]) THEN cells[i].n ELSE 0) + Total(cells, i + 1)

\* C1: the table serialized at a Convert click is the current cleaned,
\* column-filtered table: a Convert click that follows a click on Remove
\* Duplicates or Fill Missing Values for the same file serializes the table
\* that cleaning pass produced.
C1_ConvertSerializesCleanedTable ==
    [][\A i \in 1..Len(files) :
          (event.kind \in {"dedup", "fill"} /\ event.file = i
              /\ Clicked(event', "convert", i))
          => out'[i].download.data =
                 (IF fmt[i] = "CSV" THEN CsvData(ToCsv(out[i].df))
                  ELSE XlsxData(ToExcel(out[i].df)))]_vars

\* C2: Remove Duplicates yields at most as many rows as it was given, no
\* two of them equal in every column, and they are the first occurrences of
\* the distinct input rows in their original relative order.
C2_RemoveDuplicatesKeepsFirstOccurrences ==
    \A i \in 1..Len(files) :
        (Clicked(event, "dedup", i) /\ AllSelected(i)) =>
            LET input == Parsed(i).rows
                output == out[i].df.rows
            IN /\ out[i].df.columns = Parsed(i).columns
               /\ Len(output) <= Len(input)
               /\ \A p, q \in 1..Len(output) : p # q => output[p] # output[q]
               /\ Range(output) = Range(input)
               /\ \A p, q \in 1..Len(output) :
                      p < q => FirstAt(input, output[p]) < FirstAt(input, output[q])

\* Duplicates were removed from a frame whose third row repeats its first
\* and whose second row differs.
C2_Witness ==
    /\ Clicked(event, "dedup", 1)
    /\ Len(Parsed(1).rows) = 3
    /\ Parsed(1).rows[1] = Parsed(1).rows[3]
    /\ Parsed(1).rows[1] # Parsed(1).rows[2]
    /\ Len(out[1].df.rows) = 2

\* C3: Fill Missing Values leaves no missing cell in a numeric column that
\* has a value, each formerly missing cell holding the mean of the column's
\* values; cells that held a value and non-numeric columns are unchanged; a
\* numeric column without any value stays all missing, and the frame keeps
\* its shape.
C3_FillMissingUsesColumnMean ==
    \A i \in 1..Len(files) :
        (Clicked(event, "fill", i) /\ AllSelected(i)) =>
            LET input == Parsed(i)
                output == out[i].df
            IN /\ output.ok
               /\ output.columns = input.columns
               /\ Len(output.rows) = Len(input.rows)
               /\ \A j \in 1..Len(input.columns) :
                      LET before == Column(input, j)
                          after == Column(output, j)
                          rows == 1..Len(before)
                          present == {r \in rows : IsNum(before[r])}
                      IN IF \E r \in rows : before[r].k = "str"
                         THEN after = before
                         ELSE /\ \A r \in rows :
                                     ~ IsNA(before[r]) => after[r] = before[r]
                              /\ present # {} =>
                                     \A r \in rows :
                                         IsNA(before[r]) =>
                                             /\ IsNum(after[r])
                                             /\ after[r].n * Cardinality(present)
                                                    = Total(before, 1) * after[r].d
                              /\ present = {} => \A r \in rows : IsNA(after[r])

\* Missing values were filled in a frame with a numeric column holding 1, 2
\* and a missing cell, beside a column that is missing throughout.
C3_Witness ==
    /\ Clicked(event, "fill", 1)
    /\ Len(Parsed(1).columns) = 2
    /\ Range(Column(Parsed(1), 1)) = {Num(1, 1), Num(2, 1), NA}
    /\ Range(Column(Parsed(1), 2)) = {NA}
    /\ Num(3, 2) \in Range(Column(out[1].df, 1))

\* C4: the export file name is the uploaded name with its final extension
\* replaced by .csv for CSV and by .xlsx for Excel.
C4_ExportNameReplacesFinalExtension ==
    \A i \in 1..Len(files) :
        out[i].download.offered =>
            LET name == files[i].name
                basename == SubSeq(name, 1, Len(name) - Len(SplitExt(name)))
            IN out[i].download.file_name =
                   basename \o (IF fmt[i] = "CSV" THEN <<".", "c", "s", "v">>
                                ELSE <<".", "x", "l", "s", "x">>)

\* C5: the selected frame holds the parsed frame's columns that are
\* selected, in the parsed frame's column order, with every row and every
\* cell of those columns unchanged.
C5_SelectionKeepsOriginalOrder ==
    \A i \in 1..Len(files) :
        (out[i].df.ok /\ event.kind \notin {"dedup", "fill"}) =>
            LET original == Parsed(i)
                picked == [j \in 1..Len(original.columns) |->
                              original.columns[j] \in Range(sel[i])]
            IN /\ out[i].df.columns = Keep(original.columns, picked, 1)
               /\ out[i].df.rows =
                      [r \in 1..Len(original.rows) |->
                          Keep(original.rows[r], picked, 1)]

\* C6: a file whose extension is neither .csv nor .xlsx, whatever its case,
\* gets an error and nothing else; every other file of the upload gets its
\* frame, its preview and its controls.
C6_UnsupportedFileIsSkippedAlone ==
    \A i \in 1..Len(files) :
        IF Lower(SplitExt(files[i].name)) \in
               {<<".", "c", "s", "v">>, <<".", "x", "l", "s", "x">>}
        THEN /\ out[i].df.ok
             /\ out[i].error = <<>>
             /\ {"file_name", "file_size", "preview", "clean_checkbox",
                 "multiselect", "viz_checkbox", "radio", "convert_button"}
                    \subseteq out[i].shown
             /\ "error" \notin out[i].shown
        ELSE /\ out[i].shown = {"error"}
             /\ out[i].error # <<>>
             /\ out[i].df = NoTable
             /\ out[i].preview = <<>>
             /\ out[i].chart.kind = "none"
             /\ ~ out[i].download.offered

\* An unsupported file stands between two supported ones, and a button of
\* the last file was the one clicked.
C6_Witness ==
    /\ Len(files) = 3
    /\ ~ Supported(files[2].name)
    /\ out[2].shown = {"error"}
    /\ "preview" \in out[1].shown
    /\ Clicked(event, "convert", 3)
    /\ out[3].download.offered

\* C7: with the visualization box ticked there is either a bar chart or a
\* warning, never both: the warning exactly when the selected frame has no
\* numeric column or no row with a value in a numeric column, else a chart
\* of the first two numeric columns at most, in the frame's column order.
C7_ChartOrWarning ==
    \A i \in 1..Len(files) :
        out[i].df.ok =>
            LET df == out[i].df
                chart == out[i].chart
                numeric == {j \in 1..Len(df.columns) : df.dtypes[j] = "number"}
                live == {r \in 1..Len(df.rows) :
                            \E j \in numeric : ~ IsNA(df.rows[r][j])}
                nth(k) == CHOOSE j \in numeric :
                              Cardinality({m \in numeric : m < j}) = k - 1
                width == Min(Cardinality(numeric), 2)
            IN IF ~ viz[i]
               THEN out[i].shown \cap {"bar_chart", "warning"} = {}
               ELSE /\ ("bar_chart" \in out[i].shown) # ("warning" \in out[i].shown)
                    /\ ("warning" \in out[i].shown) <=> (numeric = {} \/ live = {})
                    /\ ("bar_chart" \in out[i].shown) <=> (chart.kind = "bar_chart")
                    /\ chart.kind = "bar_chart" =>
                           /\ chart.data.columns =
                                  [k \in 1..width |-> df.columns[nth(k)]]
                           /\ Len(chart.data.rows) = Cardinality(live)
                           /\ \A r \in 1..Len(chart.data.rows) :
                                  Len(chart.data.rows[r]) = width

\* Three numeric columns are selected, not in the file's order, and two of
\* them are charted.
C7_Witness ==
    /\ viz[1]
    /\ Len(out[1].df.columns) = 3
    /\ out[1].df.columns # Parsed(1).columns
    /\ \A j \in 1..3 : out[1].df.dtypes[j] = "number"
    /\ out[1].chart.kind = "bar_chart"
    /\ Len(out[1].chart.data.columns) = 2

\* C8: the radio and the Convert button are on the page of every parsed
\* file in every pass, and a Convert click offers an artifact of the format
\* the radio holds at that click: text/csv for CSV, the spreadsheet type
\* for Excel, whether or not the cleaning and visualization boxes are
\* ticked.
C8_ArtifactMatchesFormatChoice ==
    \A i \in 1..Len(files) :
        out[i].df.ok =>
            /\ {"radio", "convert_button"} \subseteq out[i].shown
            /\ fmt[i] \in {"CSV", "Excel"}
            /\ out[i].download.offered <=> Clicked(event, "convert", i)
            /\ Clicked(event, "convert", i) =>
                   IF fmt[i] = "CSV"
                   THEN /\ out[i].download.mime = "text/csv"
                        /\ out[i].download.data.format = "csv"
                   ELSE /\ out[i].download.mime =
                               "application/vnd.openxmlformats-officedocument.spreadsheetml.sheet"
                        /\ out[i].download.data.format = "xlsx"

\* Convert was clicked with the radio moved to Excel and both boxes ticked.
C8_Witness ==
    /\ Clicked(event, "convert", 1)
    /\ fmt[1] = "Excel"
    /\ clean[1] /\ viz[1]
    /\ out[1].download.mime = MimeXlsx

\* An export to CSV is of a frame that was parsed from a CSV file.
CsvFromCsv(i) ==
    (fmt[i] = "CSV") => (FileExtension(files[i].name) = ExtCsv)

RoundTrips(i) ==
    LET again == ReadData(out[i].download.data)
    IN /\ again.ok
       /\ again.columns = out[i].df.columns
       /\ again.rows = out[i].df.rows

\* C9 as claimed: every table that is exported to CSV or to Excel parses
\* again to the same column headers and the same cells.
C9_RoundTripOfEveryTable ==
    \A i \in 1..Len(files) : Clicked(event, "convert", i) => RoundTrips(i)

\* C9 as amended: a table with at least one column parses again to the same
\* column headers and the same cells after an export to CSV, provided it
\* was parsed from a CSV file, and after an export to Excel, provided its
\* last row is not missing in every column.
C9_RoundTripOfExportedTable ==
    \A i \in 1..Len(files) :
        LET df == out[i].df
            n == Len(df.rows)
        IN (/\ Clicked(event, "convert", i)
            /\ CsvFromCsv(i)
            /\ Len(df.columns) >= 1
            /\ (fmt[i] = "Excel" /\ n > 0) =>
                   \E j \in 1..Len(df.columns) : ~ IsNA(df.rows[n][j]))
           => RoundTrips(i)

\* A CSV file's two columns, one of them with a missing cell and one with
\* a text, were exported to CSV in the reverse order.
C9_Witness ==
    /\ Clicked(event, "convert", 1)
    /\ CsvFromCsv(1) /\ fmt[1] = "CSV"
    /\ out[1].df.columns = <<"b", "a">>
    /\ Len(out[1].df.rows) = MaxRowsSelect
    /\ \E r \in 1..Len(out[1].df.rows) : IsNA(out[1].df.rows[r][1])
    /\ \E r \in 1..Len(out[1].df.rows) : out[1].df.rows[r][2].k = "str"
    /\ RoundTrips(1)

\* C10: applying Remove Duplicates to the frame it produced changes
\* nothing, and neither does applying Fill Missing Values to the frame it
\* produced.
C10_CleaningIsIdempotent ==
    \A i \in 1..Len(files) :
        AllSelected(i) =>
            /\ Clicked(event, "dedup", i) =>
                   DropDuplicates(out[i].df) = out[i].df
            /\ Clicked(event, "fill", i) =>
                   FillMissing(out[i].df) = out[i].df

\* Missing values were filled in a frame that has a numeric column missing
\* throughout and another one that the fill changed.
C10_Witness ==
    /\ Clicked(event, "fill", 1)
    /\ out[1].df # Parsed(1)
    /\ \E j \in 1..Len(Parsed(1).columns) :
           /\ Parsed(1).dtypes[j] = "number"
           /\ \A r \in 1..Len(Parsed(1).rows) : IsNA(Parsed(1).rows[r][j])

====
